---------------------------- MODULE Spec2Model ----------------------------
(***************************************************************************)
(* A model of keylogger.py, the Tkinter application TypingRecorder: the    *)
(* start/stop state machine, the key handler, the log buffer and its       *)
(* mirror in the Treeview, save, clear, the status label and window close. *)
(*                                                                         *)
(* Text is modelled as a sequence of pieces.  A piece is either a single   *)
(* character (the separators "\t" and "\n", the "#" that opens a header    *)
(* line, the character of a key event) or a run of characters that the     *)
(* program produces as a whole and that holds no separator (a formatted    *)
(* timestamp, a keysym, the words of a header line).  Concatenation is \o, *)
(* the empty string is << >>.                                              *)
(***************************************************************************)
EXTENDS Integers, Sequences, FiniteSets, TLC

(* Bounds of the model. *)
MaxLog == 2
MaxClock == 1

VARIABLES
    alive,          \* the Tk root exists (False after self.destroy())
    recording,      \* self.recording
    log,            \* self.log: sequence of (ts, keysym, char)
    tree,           \* rows of self.tree, in display order
    start_btn,      \* state of self.start_btn
    stop_btn,       \* state of self.stop_btn
    key_binding,    \* scripts bound to <Key> on self.type_area
    info_label,     \* text of self.info_label
    window_focused, \* the application holds the input focus of its display
    focus_widget,   \* the widget of the window that holds (or will get) focus
    dialogs,        \* the dialogs the last handler has shown, in order
    written,        \* the file the last handler has opened and what it wrote
    last_op         \* the last handler that ran, and how it ended

vars == <<alive, recording, log, tree, start_btn, stop_btn, key_binding,
          info_label, window_focused, focus_widget, dialogs, written, last_op>>

-----------------------------------------------------------------------------
(* Characters and text. *)

TAB == "\t"
NL == "\n"
CR == "\r"

(* str.isprintable() on the one-character strings the key events below     *)
(* carry: letters, "#" and the ASCII space are printable, the control      *)
(* characters "\t", "\r" and "\n" are not.                                 *)
Printable == {"a", "#", " "}

isprintable(s) == \A i \in 1..Len(s) : s[i] \in Printable

(* The key events Tk delivers, as (event.keysym, event.char): event.char   *)
(* is "\r" for Return, "\t" for Tab and empty for a modifier key.          *)
KeyEvents ==
    { [keysym |-> <<"a">>,       char |-> <<"a">>],
      [keysym |-> <<"Return">>,  char |-> <<CR>>],
      [keysym |-> <<"Tab">>,     char |-> <<TAB>>],
      [keysym |-> <<"space">>,   char |-> <<" ">>],
      [keysym |-> <<"Shift_L">>, char |-> <<>>] }

Clock == 0..MaxClock

(* The clock readings of a save, which comes after the key presses it      *)
(* saves: the generation time goes into the header and nowhere else.       *)
SaveClock == {MaxClock}

(* datetime.now().strftime("%Y-%m-%d %H:%M:%S.%f")[:-3] at clock reading t: *)
(* one run of 23 characters, digits and "-", " ", ":", ".".                *)
strftime(t) == <<"2026-11-01 10:00:00.00" \o ToString(t)>>

(* datetime.now().isoformat() at clock reading t. *)
isoformat(t) == <<"2026-11-01T10:00:00.00" \o ToString(t) \o "000">>

RECURSIVE concat(_)
concat(ss) == IF ss = <<>> THEN <<>> ELSE Head(ss) \o concat(Tail(ss))

-----------------------------------------------------------------------------
(* Dialogs (tkinter.messagebox, tkinter.filedialog). *)

Dialog(kind, title, arg) == [kind |-> kind, title |-> title, arg |-> arg]

NoWrite == [path |-> "", content |-> <<>>]

Paths == {"out.txt"}

-----------------------------------------------------------------------------
(* The status label. *)

StatusInitial == "Status: Idle -- the app records only while focused and recording."
StatusIdle == "Status: Idle -- press Start Recording"
StatusFocused == "Status: Recording (window focused)"
StatusUnfocused ==
    "Status: Recording (window not focused) -- keystrokes only recorded when focused"

(* _update_status: the label's text for the given flag and focus. *)
_update_status(rec, focused) ==
    IF rec
    THEN IF focused THEN StatusFocused ELSE StatusUnfocused
    ELSE StatusIdle

-----------------------------------------------------------------------------
Init ==
    /\ alive = TRUE
    /\ recording = FALSE
    /\ log = <<>>
    /\ tree = <<>>
    /\ start_btn = "normal"
    /\ stop_btn = "disabled"
    /\ key_binding = <<>>
    /\ info_label = StatusInitial
    /\ window_focused = FALSE
    /\ focus_widget = "root"
    /\ dialogs = <<>>
    /\ written = NoWrite
    /\ last_op = "init"

(* What every handler resets: the dialogs and file of the handler before. *)
Quiet(op) ==
    /\ dialogs' = <<>>
    /\ written' = NoWrite
    /\ last_op' = op

(* start_recording without line 88: the Stop button is not enabled. *)
start_recording_stop_stays_disabled ==
    /\ alive
    /\ IF recording
       THEN /\ Quiet("start_noop")
            /\ UNCHANGED <<alive, recording, log, tree, start_btn, stop_btn,
                           key_binding, info_label, window_focused, focus_widget>>
       ELSE /\ key_binding' = <<"_on_key">>
            /\ recording' = TRUE
            /\ start_btn' = "disabled"
            /\ info_label' = _update_status(TRUE, window_focused)
            /\ focus_widget' = "type_area"
            /\ Quiet("start")
            /\ UNCHANGED <<alive, log, tree, window_focused, stop_btn>>

(* start_recording that opens a new session with an empty self.log. *)
start_recording_resets_log ==
    /\ alive
    /\ IF recording
       THEN /\ Quiet("start_noop")
            /\ UNCHANGED <<alive, recording, log, tree, start_btn, stop_btn,
                           key_binding, info_label, window_focused, focus_widget>>
       ELSE /\ key_binding' = <<"_on_key">>
            /\ recording' = TRUE
            /\ start_btn' = "disabled"
            /\ stop_btn' = "normal"
            /\ info_label' = _update_status(TRUE, window_focused)
            /\ focus_widget' = "type_area"
            /\ log' = <<>>
            /\ tree' = <<>>
            /\ Quiet("start")
            /\ UNCHANGED <<alive, window_focused>>

(* start_recording without the test of lines 82-83: a start while          *)
(* recording binds, updates and takes the focus again.                     *)
start_recording_unguarded ==
    /\ alive
    /\ key_binding' = <<"_on_key">>
    /\ recording' = TRUE
    /\ start_btn' = "disabled"
    /\ stop_btn' = "normal"
    /\ info_label' = _update_status(TRUE, window_focused)
    /\ focus_widget' = "type_area"
    /\ Quiet(IF recording THEN "start_noop" ELSE "start")
    /\ UNCHANGED <<alive, log, tree, window_focused>>

(* start_recording without the test of lines 82-83 and binding with       *)
(* add="+": each start adds a script to those bound to <Key>.              *)
start_recording_adds_binding ==
    /\ alive
    /\ Len(key_binding) < 2
    /\ key_binding' = Append(key_binding, "_on_key")
    /\ recording' = TRUE
    /\ start_btn' = "disabled"
    /\ stop_btn' = "normal"
    /\ info_label' = _update_status(TRUE, window_focused)
    /\ focus_widget' = "type_area"
    /\ Quiet(IF recording THEN "start_noop" ELSE "start")
    /\ UNCHANGED <<alive, log, tree, window_focused>>

(* start_recording, the command of the Start button. *)
start_recording ==
    /\ alive
    /\ IF recording
       THEN /\ Quiet("start_noop")
            /\ UNCHANGED <<alive, recording, log, tree, start_btn, stop_btn,
                           key_binding, info_label, window_focused, focus_widget>>
       ELSE /\ key_binding' = <<"_on_key">>
            /\ recording' = TRUE
            /\ start_btn' = "disabled"
            /\ stop_btn' = "normal"
            /\ info_label' = _update_status(TRUE, window_focused)
            /\ focus_widget' = "type_area"
            /\ Quiet("start")
            /\ UNCHANGED <<alive, log, tree, window_focused>>

(* stop_recording without line 95: the binding of <Key> is left in place. *)
stop_recording_keeps_binding ==
    /\ alive
    /\ IF ~recording
       THEN /\ Quiet("stop_noop")
            /\ UNCHANGED <<alive, recording, log, tree, start_btn, stop_btn,
                           key_binding, info_label, window_focused, focus_widget>>
       ELSE /\ recording' = FALSE
            /\ start_btn' = "normal"
            /\ stop_btn' = "disabled"
            /\ info_label' = _update_status(FALSE, window_focused)
            /\ Quiet("stop")
            /\ UNCHANGED <<alive, log, tree, window_focused, focus_widget,
                           key_binding>>

(* stop_recording, the command of the Stop button. *)
stop_recording ==
    /\ alive
    /\ IF ~recording
       THEN /\ Quiet("stop_noop")
            /\ UNCHANGED <<alive, recording, log, tree, start_btn, stop_btn,
                           key_binding, info_label, window_focused, focus_widget>>
       ELSE /\ key_binding' = <<>>
            /\ recording' = FALSE
            /\ start_btn' = "normal"
            /\ stop_btn' = "disabled"
            /\ info_label' = _update_status(FALSE, window_focused)
            /\ Quiet("stop")
            /\ UNCHANGED <<alive, log, tree, window_focused, focus_widget>>

(* Line 105 without the isprintable test: event.char as it comes. *)
printable_char_unfiltered(c) == c

(* Line 105 with the test of emptiness alone. *)
printable_char_nonempty(c) == IF c # <<>> THEN c ELSE <<>>

(* Line 105: event.char if event.char and event.char.isprintable() else "". *)
printable_char(c) == IF c # <<>> /\ isprintable(c) THEN c ELSE <<>>

(* _on_key returning early for a key with no printable character. *)
_on_key_skips_nonprintable(e, t) ==
    LET ts == strftime(t)
        char == printable_char(e.char)
        row == [ts |-> ts, keysym |-> e.keysym, char |-> char]
    IN  IF char = <<>>
        THEN UNCHANGED <<log, tree>>
        ELSE /\ log' = Append(log, row)
             /\ tree' = Append(tree, row)

(* _on_key inserting the row at index 0 of the tree instead of "end". *)
_on_key_inserts_first(e, t) ==
    LET ts == strftime(t)
        row == [ts |-> ts, keysym |-> e.keysym, char |-> printable_char(e.char)]
    IN  /\ log' = Append(log, row)
        /\ tree' = <<row>> \o tree

(* _on_key(event), run at clock reading t: lines 103-108. *)
_on_key(e, t) ==
    LET ts == strftime(t)
        keysym == e.keysym
        char == printable_char(e.char)
        row == [ts |-> ts, keysym |-> keysym, char |-> char]
    IN  /\ log' = Append(log, row)
        /\ tree' = Append(tree, row)

(* The handler bound with bind_all: it runs for a key press in any widget  *)
(* of the focused window.                                                  *)
KeyDelivered_bind_all == alive /\ window_focused

(* Tk hands a key press to the widget that holds the focus, and only while *)
(* the application holds the focus of its display; the scripts bound to    *)
(* <Key> on self.type_area (line 85) run when that widget is the one.      *)
KeyDelivered == alive /\ window_focused /\ focus_widget = "type_area"

(* A key press in the typing area. *)
KeyPress ==
    /\ KeyDelivered
    /\ IF key_binding = <<>>
       THEN /\ Quiet("key_unbound")
            /\ UNCHANGED <<log, tree>>
       ELSE /\ Len(log) < MaxLog
            /\ \E e \in KeyEvents, t \in Clock : _on_key(e, t)
            /\ Quiet("key")
    /\ UNCHANGED <<alive, recording, start_btn, stop_btn, key_binding,
                   info_label, window_focused, focus_widget>>

(* A key press while another widget of the window holds the focus: no      *)
(* binding of self.type_area runs.                                         *)
KeyElsewhere ==
    /\ alive /\ window_focused /\ focus_widget # "type_area"
    /\ Quiet("key_elsewhere")
    /\ UNCHANGED <<alive, recording, log, tree, start_btn, stop_btn, key_binding,
                   info_label, window_focused, focus_widget>>

(* Lines 123-125: the three header writes; the third ends with a blank line. *)
header_writes(t) ==
    << <<"#", " Typing Recorder Log", NL>>,
       <<"#", " Generated: ">> \o isoformat(t) \o <<NL>>,
       <<"#", " Columns: timestamp | keysym | char (char empty if non-printable)",
         NL, NL>> >>

(* Lines 128-129: the line written for one record. *)
data_line(r) ==
    LET safe_char == IF r.char # <<>> THEN r.char ELSE <<>>
    IN  r.ts \o <<TAB>> \o r.keysym \o <<TAB>> \o safe_char \o <<NL>>

(* The loop of line 126 stopping one record short. *)
file_writes_short(t) ==
    header_writes(t) \o [i \in 1..(Len(log) - 1) |-> data_line(log[i])]

(* The f.write calls of lines 123-129, in order. *)
file_writes(t) == header_writes(t) \o [i \in 1..Len(log) |-> data_line(log[i])]

(* The text of a file after the first k of the writes ws. *)
file_text(ws, k) == concat(SubSeq(ws, 1, k))

AskPath == Dialog("asksaveasfilename", "Save recorded keystrokes", <<>>)

(* save_log without the test of line 113: the path is asked for and a file *)
(* holding the header alone is written.                                    *)
save_no_events_writes_header ==
    /\ log = <<>>
    /\ \E fpath \in Paths, t \in SaveClock :
          LET ws == file_writes(t)
          IN  /\ written' = [path |-> fpath, content |-> file_text(ws, Len(ws))]
              /\ dialogs' = <<AskPath,
                              Dialog("showinfo", "Save Log",
                                     <<"Saved", Len(log), fpath>>)>>
    /\ last_op' = "save_empty"

(* Lines 113-115: nothing to save. *)
save_no_events ==
    /\ log = <<>>
    /\ dialogs' = <<Dialog("showinfo", "Save Log", <<"No events to save.">>)>>
    /\ written' = NoWrite
    /\ last_op' = "save_empty"

(* save_log without the test of lines 119-120: open("") raises and the    *)
(* error is reported.                                                      *)
save_no_path_opens ==
    /\ log # <<>>
    /\ dialogs' = <<AskPath,
                    Dialog("showerror", "Save Log", <<"Failed to save file">>)>>
    /\ written' = NoWrite
    /\ last_op' = "save_cancelled"

(* Lines 116-120: asksaveasfilename returns no path, the user has cancelled. *)
save_no_path ==
    /\ log # <<>>
    /\ dialogs' = <<AskPath>>
    /\ written' = NoWrite
    /\ last_op' = "save_cancelled"

(* Lines 121-130: the file is opened, every write succeeds, the count is   *)
(* reported.                                                               *)
save_written ==
    /\ log # <<>>
    /\ \E fpath \in Paths, t \in SaveClock :
          LET ws == file_writes(t)
          IN  /\ written' = [path |-> fpath, content |-> file_text(ws, Len(ws))]
              /\ dialogs' = <<AskPath,
                              Dialog("showinfo", "Save Log",
                                     <<"Saved", Len(log), fpath>>)>>
    /\ last_op' = "save_ok"

(* save_log without the handler of lines 131-132: the exception leaves    *)
(* the callback and no error dialog is shown.                              *)
save_failed_unreported ==
    /\ log # <<>>
    /\ \/ /\ written' = NoWrite
          /\ last_op' = "save_open_failed"
       \/ /\ \E fpath \in Paths, t \in SaveClock :
                LET ws == file_writes(t)
                IN  \E k \in 0..Len(ws) :
                       written' = [path |-> fpath, content |-> file_text(ws, k)]
          /\ last_op' = "save_write_failed"
    /\ dialogs' = <<AskPath>>

(* Lines 121-132: open() raises and no file is opened, or a write (or the  *)
(* close) raises after k of the writes have reached the file; the handler  *)
(* of line 131 reports it.                                                 *)
save_failed ==
    /\ log # <<>>
    /\ \/ /\ written' = NoWrite
          /\ last_op' = "save_open_failed"
       \/ /\ \E fpath \in Paths, t \in SaveClock :
                LET ws == file_writes(t)
                IN  \E k \in 0..Len(ws) :
                       written' = [path |-> fpath, content |-> file_text(ws, k)]
          /\ last_op' = "save_write_failed"
    /\ dialogs' = <<AskPath,
                    Dialog("showerror", "Save Log", <<"Failed to save file">>)>>

(* save_log, the command of the Save button. *)
save_log ==
    /\ alive
    /\ \/ save_no_events
       \/ save_no_path
       \/ save_written
       \/ save_failed
    /\ UNCHANGED <<alive, recording, log, tree, start_btn, stop_btn, key_binding,
                   info_label, window_focused, focus_widget>>

(* clear_log without the test of lines 135-136: the question is asked of  *)
(* an empty buffer too.                                                    *)
clear_empty_asks ==
    /\ log = <<>>
    /\ \E answer \in BOOLEAN :
          dialogs' = <<Dialog("askyesno", "Clear Log", <<answer>>)>>
    /\ written' = NoWrite
    /\ last_op' = "clear_noop"
    /\ UNCHANGED <<log, tree>>

(* Lines 135-136: nothing to clear, no dialog. *)
clear_empty ==
    /\ log = <<>>
    /\ Quiet("clear_noop")
    /\ UNCHANGED <<log, tree>>

(* Lines 137-138: askyesno answers no. *)
clear_declined ==
    /\ log # <<>>
    /\ dialogs' = <<Dialog("askyesno", "Clear Log", <<FALSE>>)>>
    /\ written' = NoWrite
    /\ last_op' = "clear_declined"
    /\ UNCHANGED <<log, tree>>

(* clear_log without the loop of lines 140-141: the rows stay in the tree. *)
clear_confirmed_keeps_rows ==
    /\ log # <<>>
    /\ dialogs' = <<Dialog("askyesno", "Clear Log", <<TRUE>>)>>
    /\ written' = NoWrite
    /\ last_op' = "clear_confirmed"
    /\ log' = <<>>
    /\ UNCHANGED tree

(* Lines 137-141: askyesno answers yes. *)
clear_confirmed ==
    /\ log # <<>>
    /\ dialogs' = <<Dialog("askyesno", "Clear Log", <<TRUE>>)>>
    /\ written' = NoWrite
    /\ last_op' = "clear_confirmed"
    /\ log' = <<>>
    /\ tree' = <<>>

(* clear_log, the command of the Clear button. *)
clear_log ==
    /\ alive
    /\ \/ clear_empty
       \/ clear_declined
       \/ clear_confirmed
    /\ UNCHANGED <<alive, recording, start_btn, stop_btn, key_binding,
                   info_label, window_focused, focus_widget>>

(* <FocusIn> on the window (line 75): the application gets the focus. *)
FocusIn ==
    /\ alive /\ ~window_focused
    /\ window_focused' = TRUE
    /\ info_label' = _update_status(recording, TRUE)
    /\ Quiet("focus_in")
    /\ UNCHANGED <<alive, recording, log, tree, start_btn, stop_btn, key_binding,
                   focus_widget>>

(* The window without the binding of line 76: the label is not touched    *)
(* when the focus goes.                                                    *)
FocusOut_unbound ==
    /\ alive /\ window_focused
    /\ window_focused' = FALSE
    /\ Quiet("focus_out")
    /\ UNCHANGED <<alive, recording, log, tree, start_btn, stop_btn, key_binding,
                   focus_widget, info_label>>

(* <FocusOut> on the window (line 76): the application loses the focus. *)
FocusOut ==
    /\ alive /\ window_focused
    /\ window_focused' = FALSE
    /\ info_label' = _update_status(recording, FALSE)
    /\ Quiet("focus_out")
    /\ UNCHANGED <<alive, recording, log, tree, start_btn, stop_btn, key_binding,
                   focus_widget>>

(* The focus moves between widgets of the focused window (a click, Tab     *)
(* traversal): <FocusOut> and <FocusIn> reach the bindings of lines 75-76  *)
(* through the widgets' bindtags.                                          *)
FocusMove ==
    /\ alive /\ window_focused
    /\ \E w \in {"type_area", "other"} :
          /\ w # focus_widget
          /\ focus_widget' = w
    /\ info_label' = _update_status(recording, TRUE)
    /\ Quiet("focus_move")
    /\ UNCHANGED <<alive, recording, log, tree, start_btn, stop_btn, key_binding,
                   window_focused>>

(* on_close without the return of line 157: the window is destroyed       *)
(* whatever the answer.                                                    *)
close_declined_destroys ==
    /\ recording
    /\ dialogs' = <<Dialog("askyesno", "Quit", <<FALSE>>)>>
    /\ written' = NoWrite
    /\ last_op' = "close_declined"
    /\ alive' = FALSE

(* Lines 155-157: recording, and askyesno answers no. *)
close_declined ==
    /\ recording
    /\ dialogs' = <<Dialog("askyesno", "Quit", <<FALSE>>)>>
    /\ written' = NoWrite
    /\ last_op' = "close_declined"
    /\ UNCHANGED alive

(* Lines 155-158: recording, and askyesno answers yes. *)
close_confirmed ==
    /\ recording
    /\ dialogs' = <<Dialog("askyesno", "Quit", <<TRUE>>)>>
    /\ written' = NoWrite
    /\ last_op' = "close_confirmed"
    /\ alive' = FALSE

(* on_close without the test of line 155: the window is destroyed without *)
(* a question, recording or not.                                           *)
close_idle_untested ==
    /\ Quiet("close_idle")
    /\ alive' = FALSE

(* Lines 155, 158: not recording, no dialog. *)
close_idle ==
    /\ ~recording
    /\ Quiet("close_idle")
    /\ alive' = FALSE

(* on_close, the WM_DELETE_WINDOW handler (line 79). *)
on_close ==
    /\ alive
    /\ \/ close_declined
       \/ close_confirmed
       \/ close_idle
    /\ UNCHANGED <<recording, log, tree, start_btn, stop_btn, key_binding,
                   info_label, window_focused, focus_widget>>

Next ==
    \/ start_recording
    \/ stop_recording
    \/ KeyPress
    \/ KeyElsewhere
    \/ save_log
    \/ clear_log
    \/ FocusIn
    \/ FocusOut
    \/ FocusMove
    \/ on_close

Spec == Init /\ [][Next]_vars

-----------------------------------------------------------------------------
(* The handlers by the value they leave in last_op. *)
KeyOps == {"key", "key_unbound", "key_elsewhere"}
SaveOps == {"save_empty", "save_cancelled", "save_ok", "save_open_failed",
            "save_write_failed"}
SaveFailedOps == {"save_open_failed", "save_write_failed"}

(* C1: a key press that arrives while not recording (initially, or after   *)
(* a stop) leaves the buffer, its length and its records, as it was.       *)
C1_IdleKeysNotRecorded ==
    [][(~recording /\ last_op' \in KeyOps) => log' = log]_vars

(* A key press has reached the typing area after a stop, with records in   *)
(* the buffer.                                                             *)
C1_Witness == ~recording /\ last_op = "key_unbound" /\ log # <<>>

(* C2: Start is enabled and Stop disabled exactly when idle, Start is      *)
(* disabled and Stop enabled exactly when recording; never both enabled,   *)
(* never both disabled.                                                    *)
C2_ControlsReflectState ==
    /\ start_btn \in {"normal", "disabled"}
    /\ stop_btn \in {"normal", "disabled"}
    /\ (start_btn = "normal") <=> ~recording
    /\ (stop_btn = "normal") <=> recording
    /\ (start_btn = "normal") # (stop_btn = "normal")

(* A second start, after a start and a stop. *)
C2_Witness == last_op = "start" /\ log # <<>> /\ stop_btn = "normal"

(* C3: in every step in which the buffer grows the program is recording,   *)
(* the application holds the focus and the typing area is the widget that  *)
(* holds it; so nothing is captured while the window is unfocused.         *)
C3_GrowsOnlyRecordingFocused ==
    [][Len(log') > Len(log) =>
         (recording /\ window_focused /\ focus_widget = "type_area"
            /\ last_op' = "key")]_vars

(* A key has been recorded. *)
C3_Witness ==
    /\ last_op = "key" /\ log # <<>>
    /\ recording /\ window_focused /\ focus_widget = "type_area"

(* C4: every step leaves the buffer as it is, appends one record at its    *)
(* end, or empties it in a confirmed clear; start, stop, save, focus       *)
(* changes and a declined close leave it as it is.                         *)
C4_AppendOnly ==
    [][/\ \/ log' = log
          \/ /\ Len(log') = Len(log) + 1
             /\ SubSeq(log', 1, Len(log)) = log
          \/ /\ log' = <<>>
             /\ last_op' = "clear_confirmed"
       /\ last_op' \notin {"key", "clear_confirmed"} => log' = log]_vars

(* A start finds the records of the session before. *)
C4_Witness == last_op = "start" /\ Len(log) = 2 /\ log[1] # log[2]

-----------------------------------------------------------------------------
(* Reading a saved file back. *)

(* s.split(sep): the runs of s between the occurrences of sep. *)
RECURSIVE split(_, _)
split(s, sep) ==
    LET at == {i \in 1..Len(s) : s[i] = sep}
    IN  IF at = {}
        THEN <<s>>
        ELSE LET i == CHOOSE j \in at : \A k \in at : j <= k
             IN  <<SubSeq(s, 1, i - 1)>> \o split(SubSeq(s, i + 1, Len(s)), sep)

(* The lines of a text, each without its "\n". *)
Lines(text) ==
    LET parts == split(text, NL)
    IN  IF parts[Len(parts)] = <<>>
        THEN SubSeq(parts, 1, Len(parts) - 1)
        ELSE parts

IsDataLine(l) == l # <<>> /\ l[1] # "#"

(* The data lines of a text, each split on "\t". *)
ParseFile(text) ==
    LET data == SelectSeq(Lines(text), IsDataLine)
    IN  [i \in 1..Len(data) |-> split(data[i], TAB)]

Triples(rows) == [i \in 1..Len(rows) |-> <<rows[i].ts, rows[i].keysym, rows[i].char>>]

(* C5: the data lines of a saved file, split on tab, are the buffer's      *)
(* (timestamp, key_symbol, character) triples, in order.                   *)
C5_SaveRoundTrip ==
    last_op = "save_ok" => ParseFile(written.content) = Triples(log)

(* A buffer with an empty character and a space has been saved. *)
C5_Witness ==
    /\ last_op = "save_ok"
    /\ \E i \in 1..Len(log) : log[i].char = <<>>
    /\ \E i \in 1..Len(log) : log[i].char = <<" ">>

(* C6: save on an empty buffer shows the one information dialog, does not  *)
(* ask for a path and opens no file.                                       *)
C6_SaveEmptyWritesNothing ==
    [][(log = <<>> /\ last_op' \in SaveOps) =>
         /\ written' = NoWrite
         /\ dialogs' = <<Dialog("showinfo", "Save Log", <<"No events to save.">>)>>
         /\ log' = <<>>]_vars

(* Save has run on a buffer emptied by a clear. *)
C6_Witness == last_op = "save_empty" /\ log = <<>> /\ recording

(* The state the handlers read and the window shows, apart from the buffer. *)
controls == <<alive, recording, start_btn, stop_btn, key_binding, info_label,
              window_focused, focus_widget>>

(* C7: a declined clear leaves the buffer and the display list as they     *)
(* were; a confirmed clear empties both, recording or not.                 *)
C7_ClearByAnswer ==
    [][/\ last_op' = "clear_declined" =>
            /\ dialogs' = <<Dialog("askyesno", "Clear Log", <<FALSE>>)>>
            /\ log' = log /\ tree' = tree
       /\ last_op' = "clear_confirmed" =>
            /\ dialogs' = <<Dialog("askyesno", "Clear Log", <<TRUE>>)>>
            /\ log' = <<>> /\ tree' = <<>>
      ]_vars

(* A full buffer has been cleared while recording. *)
C7_Witness ==
    /\ last_op = "clear_confirmed" /\ recording
    /\ log = <<>> /\ tree = <<>>

(* C8: a close request declined while recording changes nothing: the       *)
(* window lives, the program records, the binding, the buttons and the     *)
(* buffer are as before, and the next key press in the typing area is      *)
(* recorded.                                                               *)
C8_DeclinedCloseKeepsRecording ==
    /\ [][last_op' = "close_declined" =>
            /\ recording /\ recording'
            /\ alive'
            /\ controls' = controls
            /\ log' = log /\ tree' = tree]_vars
    /\ [](last_op = "close_declined" =>
            /\ alive /\ recording
            /\ key_binding = <<"_on_key">>
            /\ start_btn = "disabled" /\ stop_btn = "normal"
            /\ (KeyDelivered /\ Len(log) < MaxLog) =>
                  ENABLED (KeyPress /\ Len(log') = Len(log) + 1))

(* A close has been declined with records in the buffer and room for more, *)
(* the typing area holding the focus.                                      *)
C8_Witness ==
    /\ last_op = "close_declined"
    /\ log # <<>> /\ Len(log) < MaxLog
    /\ KeyDelivered

(* C9: a save that fails shows the error dialog and no success report,     *)
(* leaves the buffer, the display list and the recording state as they     *)
(* were, and leaves every operation enabled.                               *)
C9_FailedSaveIsHarmless ==
    /\ [][last_op' \in SaveFailedOps =>
            /\ log # <<>>
            /\ log' = log /\ tree' = tree
            /\ controls' = controls
            /\ dialogs' = <<AskPath,
                            Dialog("showerror", "Save Log", <<"Failed to save file">>)>>]_vars
    /\ [](last_op \in SaveFailedOps =>
            /\ alive
            /\ ENABLED start_recording
            /\ ENABLED stop_recording
            /\ ENABLED save_written
            /\ ENABLED clear_confirmed
            /\ ENABLED on_close
            /\ (KeyDelivered /\ recording /\ Len(log) < MaxLog) =>
                  ENABLED (KeyPress /\ Len(log') = Len(log) + 1))

(* A write has failed part of the way, while recording. *)
C9_Witness ==
    /\ last_op = "save_write_failed" /\ recording
    /\ written.content # <<>> /\ Len(log) < MaxLog /\ KeyDelivered

(* The line written for a record, without its "\n". *)
ExpectedLine(r) == r.ts \o <<TAB>> \o r.keysym \o <<TAB>> \o r.char

(* The count the success dialog reports. *)
ReportedCount == dialogs[Len(dialogs)].arg[2]

(* C10 as stated: after a successful save the file is a block of three     *)
(* lines, header and blank together, and then one data line per record,    *)
(* in order; the reported count is the buffer's length.                    *)
C10_ThreeLineBlock ==
    last_op = "save_ok" =>
        LET ls == Lines(written.content)
        IN  /\ Len(ls) = 3 + Len(log)
            /\ \A i \in 1..3 : ls[i] = <<>> \/ ls[i][1] = "#"
            /\ \A i \in 1..Len(log) : ls[3 + i] = ExpectedLine(log[i])
            /\ ReportedCount = Len(log)

(* C10, amended: after a successful save the file is three header lines    *)
(* that start with "#", one blank line, and then one data line per record, *)
(* timestamp, tab, key symbol, tab, character, in buffer order and nothing *)
(* after them; the reported count is the buffer's length.                  *)
C10_HeaderBlankThenData ==
    last_op = "save_ok" =>
        LET ls == Lines(written.content)
        IN  /\ Len(ls) = 4 + Len(log)
            /\ \A i \in 1..3 : ls[i] # <<>> /\ ls[i][1] = "#"
            /\ ls[4] = <<>>
            /\ \A i \in 1..Len(log) : ls[4 + i] = ExpectedLine(log[i])
            /\ written.content[Len(written.content)] = NL
            /\ Len(dialogs) = 2
            /\ dialogs[2].kind = "showinfo"
            /\ ReportedCount = Len(log)

(* start, key (a, a), key (Return, "\r"), stop, save: the two data lines   *)
(* are "<ts1>\ta\ta" and "<ts2>\tReturn\t".                                *)
C10_Witness ==
    /\ last_op = "save_ok" /\ ~recording
    /\ Len(log) = 2
    /\ log[1].keysym = <<"a">> /\ log[2].keysym = <<"Return">>
    /\ LET ls == Lines(written.content)
       IN  /\ Len(ls) = 6
           /\ ls[5] = log[1].ts \o <<TAB, "a", TAB, "a">>
           /\ ls[6] = log[2].ts \o <<TAB, "Return", TAB>>

-----------------------------------------------------------------------------
(* C11: a start while recording and a stop while idle change nothing: not  *)
(* the flag, the binding, the buttons, the status text, the focus, the     *)
(* buffer or the display list; they show no dialog.                        *)
C11_RepeatedStartStopNoOp ==
    [][/\ (recording /\ last_op' \in {"start", "start_noop"}) =>
            /\ last_op' = "start_noop"
            /\ controls' = controls
            /\ log' = log /\ tree' = tree
            /\ dialogs' = <<>>
       /\ (~recording /\ last_op' \in {"stop", "stop_noop"}) =>
            /\ last_op' = "stop_noop"
            /\ controls' = controls
            /\ log' = log /\ tree' = tree
            /\ dialogs' = <<>>]_vars

(* A second start, made while recording with the focus moved off the       *)
(* typing area and a record in the buffer.                                 *)
C11_Witness ==
    /\ last_op = "start_noop" /\ recording
    /\ focus_widget = "other" /\ log # <<>>

(* C12 as stated: in every state the label shows one of the three messages *)
(* of _update_status, the one for the current flag and focus.              *)
C12_StatusAlwaysOneOfThree ==
    /\ info_label \in {StatusIdle, StatusFocused, StatusUnfocused}
    /\ info_label = StatusIdle <=> ~recording
    /\ info_label = StatusFocused <=> (recording /\ window_focused)
    /\ info_label = StatusUnfocused <=> (recording /\ ~window_focused)

(* C12, amended: the label shows the text it is built with (line 46), and  *)
(* then only while idle, unfocused and before any start or focus event, or *)
(* else one of the three messages of _update_status, the one for the       *)
(* current flag and focus.                                                 *)
C12_StatusCurrentAfterFirstUpdate ==
    /\ info_label \in {StatusInitial, StatusIdle, StatusFocused, StatusUnfocused}
    /\ info_label = StatusInitial => (~recording /\ ~window_focused /\ log = <<>>)
    /\ info_label # StatusInitial =>
          /\ info_label = StatusIdle <=> ~recording
          /\ info_label = StatusFocused <=> (recording /\ window_focused)
          /\ info_label = StatusUnfocused <=> (recording /\ ~window_focused)

(* The focus has gone while recording, and the label says so. *)
C12_Witness ==
    /\ last_op = "focus_out" /\ recording
    /\ info_label = StatusUnfocused

(* The character a key event should leave in its record. *)
RecordedChar(e) ==
    IF Len(e.char) = 1 /\ e.char[1] \in {"a", "#", " "} THEN e.char ELSE <<>>

(* C13: a key press in the focused typing area while recording appends     *)
(* exactly one record at the end of the buffer, with the event's key       *)
(* symbol and its character, or the empty string for a key without a       *)
(* printable character; no event is dropped, and every event is accepted.  *)
C13_EveryKeyRecordedOnce ==
    /\ [][(recording /\ KeyDelivered /\ last_op' \in {"key", "key_unbound"}) =>
            /\ last_op' = "key"
            /\ Len(log') = Len(log) + 1
            /\ SubSeq(log', 1, Len(log)) = log
            /\ \E e \in KeyEvents :
                  /\ log'[Len(log')].keysym = e.keysym
                  /\ log'[Len(log')].char = RecordedChar(e)
            /\ \E t \in Clock : log'[Len(log')].ts = strftime(t)]_vars
    /\ []((recording /\ KeyDelivered /\ Len(log) < MaxLog) =>
            \A e \in KeyEvents :
               ENABLED (/\ KeyPress
                        /\ Len(log') = Len(log) + 1
                        /\ log'[Len(log')].keysym = e.keysym))

(* Return has been recorded, with the empty character, after another key. *)
C13_Witness ==
    /\ last_op = "key" /\ Len(log) = 2
    /\ log[2].keysym = <<"Return">> /\ log[2].char = <<>>

(* C14: the character of every record is empty or one printable character, *)
(* never a tab, a newline or a carriage return.                            *)
C14_CharEmptyOrPrintable ==
    \A i \in 1..Len(log) :
        \/ log[i].char = <<>>
        \/ /\ Len(log[i].char) = 1
           /\ log[i].char[1] \in Printable
           /\ log[i].char[1] \notin {TAB, NL, CR}

(* Tab and space have been recorded. *)
C14_Witness ==
    /\ Len(log) = 2
    /\ log[1].keysym = <<"Tab">> /\ log[1].char = <<>>
    /\ log[2].keysym = <<"space">> /\ log[2].char = <<" ">>

ClearOps == {"clear_noop", "clear_declined", "clear_confirmed"}
CloseOps == {"close_declined", "close_confirmed", "close_idle"}

(* C15: clear on an empty buffer asks nothing and changes nothing. *)
C15_ClearEmptyNoOp ==
    [][(log = <<>> /\ last_op' \in ClearOps) =>
         /\ last_op' = "clear_noop"
         /\ dialogs' = <<>>
         /\ log' = <<>> /\ tree' = tree
         /\ controls' = controls]_vars

(* Clear has run on an empty buffer while recording. *)
C15_Witness == last_op = "clear_noop" /\ recording /\ log = <<>> /\ dialogs = <<>>

(* C16: a save whose path selection is cancelled opens no file, shows no   *)
(* dialog after the path selection and changes nothing.                    *)
C16_SaveCancelledAborts ==
    [][last_op' = "save_cancelled" =>
         /\ log # <<>>
         /\ dialogs' = <<AskPath>>
         /\ written' = NoWrite
         /\ log' = log /\ tree' = tree
         /\ controls' = controls]_vars

(* A save of two records has been cancelled while recording. *)
C16_Witness == last_op = "save_cancelled" /\ recording /\ Len(log) = 2

(* C17: the rows of the display list are the records of the buffer, in the *)
(* same order and with the same values.                                    *)
C17_TreeMirrorsLog ==
    /\ Len(tree) = Len(log)
    /\ \A i \in 1..Len(log) :
          /\ tree[i].ts = log[i].ts
          /\ tree[i].keysym = log[i].keysym
          /\ tree[i].char = log[i].char

(* Two different records are shown, in the order of the buffer, after a    *)
(* stop.                                                                   *)
C17_Witness ==
    /\ Len(tree) = 2 /\ tree[1].keysym # tree[2].keysym
    /\ tree = log /\ last_op = "stop"

(* C18: the handler is bound to <Key> on the typing area exactly when      *)
(* recording, and never more than once.                                    *)
C18_BoundIffRecording ==
    /\ Len(key_binding) <= 1
    /\ recording <=> key_binding = <<"_on_key">>
    /\ ~recording <=> key_binding = <<>>

(* A close has been declined while recording, the window unfocused and     *)
(* records in the buffer.                                                  *)
C18_Witness ==
    /\ last_op = "close_declined" /\ log # <<>>
    /\ key_binding = <<"_on_key">> /\ ~window_focused

(* C19: a close request while recording always asks; the window is         *)
(* destroyed only by a close request that is confirmed, or made while idle *)
(* without a question; once destroyed, nothing changes.                    *)
C19_TerminatesOnlyOnClose ==
    [][/\ (alive /\ recording /\ last_op' \in CloseOps) =>
            /\ Len(dialogs') = 1
            /\ dialogs'[1].kind = "askyesno" /\ dialogs'[1].title = "Quit"
            /\ alive' <=> dialogs'[1].arg = <<FALSE>>
       /\ (alive /\ ~recording /\ last_op' \in CloseOps) =>
            /\ dialogs' = <<>>
            /\ ~alive'
       /\ (alive /\ ~alive') => last_op' \in {"close_confirmed", "close_idle"}
       /\ ~alive => (~alive' /\ log' = log /\ recording' = recording)]_vars

(* The window has been destroyed on a confirmed close, with records in the *)
(* buffer.                                                                 *)
C19_Witness ==
    /\ ~alive /\ last_op = "close_confirmed" /\ recording /\ log # <<>>

=============================================================================
